---- MODULE Spec2Model ----
(***************************************************************************)
(* A model of @cldn/ip: the Subnet value type (construction, containment,  *)
(* adjacency, merge, split, subtract, range decomposition) and the         *)
(* SubnetList collection built on it (add, remove, optimise).              *)
(*                                                                         *)
(* Addresses are unsigned integers of a family's bit length.  The two      *)
(* families keep their roles (IPv4 the narrower, IPv6 the wider) at        *)
(* reduced widths so that every subnet and address can be enumerated.      *)
(***************************************************************************)
EXTENDS Integers, Sequences, FiniteSets, TLC

\* Bit length of the narrower family (IPv4.BIT_LENGTH, 32 in the library).
V4Bits == 1

\* Bit length of the wider family (IPv6.BIT_LENGTH, 128 in the library).
V6Bits == 3

\* Width of the machine integer the Number operator << works on (32 in
\* ECMAScript): the shift count is taken modulo this width and the result
\* is a signed integer of this width.
WordBits == 3

\* Number of SubnetList operations in one behaviour.
MaxOps == 2

\* The subnets and addresses handed to the SubnetList under test lie within
\* the first 2^ListSpan addresses of their family.
ListSpan == 2

\* Bit length of one hextet of an IPv6 address (an element of a Uint16Array,
\* 16 in the library); the address has V6Bits \div HextetBits hextets.
HextetBits == 1

Families == {"IPv4", "IPv6"}

BIT_LENGTH(fam) == IF fam = "IPv4" THEN V4Bits ELSE V6Bits

(***************************************************************************)
(* BigInt arithmetic as the source uses it.                                *)
(***************************************************************************)

\* x << n on BigInt
shl(x, n) == x * (2 ^ n)

\* x >> n on BigInt (x >= 0 at every use)
shr(x, n) == x \div (2 ^ n)

RECURSIVE BitAndUpTo(_, _, _)
BitAndUpTo(x, y, n) ==
    IF n = 0 THEN 0
    ELSE 2 * BitAndUpTo(x \div 2, y \div 2, n - 1)
         + (IF x % 2 = 1 /\ y % 2 = 1 THEN 1 ELSE 0)

\* x & y on non-negative BigInt operands below 2^(V6Bits + 1)
BitAnd(x, y) == BitAndUpTo(x, y, V6Bits + 1)

\* BigInt division truncates towards zero
TruncDiv(x, y) ==
    IF y > 0 THEN x \div y ELSE 0 - (x \div (0 - y))

Max(a, b) == IF a >= b THEN a ELSE b

RECURSIVE SeqsUpTo(_, _)
\* the sequences of at most n elements of S
SeqsUpTo(S, n) ==
    IF n = 0 THEN {<<>>}
    ELSE LET shorter == SeqsUpTo(S, n - 1) IN
         shorter \cup {Append(q, x) : q \in shorter, x \in S}

(***************************************************************************)
(* Results: a value or a thrown error.                                     *)
(***************************************************************************)

TypeError == [error |-> "TypeError"]

RangeError == [error |-> "RangeError"]

Undefined == [error |-> "undefined"]

IsError(x) == "error" \in DOMAIN x

(***************************************************************************)
(* IP addresses                                                            *)
(***************************************************************************)

\* new IPv4(value) / new IPv6(value)
NewIP(fam, value) ==
    IF value < 0 \/ value > shl(1, BIT_LENGTH(fam)) - 1
    THEN TypeError
    ELSE [fam |-> fam, value |-> value]

RECURSIVE hextetsValue(_, _)
\* IPv6.fromBinary: hextets[0] << ... | ... | hextets[last], the hextets from
\* the i-th on (disjoint bit fields, so | adds)
hextetsValue(hextets, i) ==
    IF i > Len(hextets) THEN 0
    ELSE shl(hextets[i], HextetBits * (Len(hextets) - i))
         + hextetsValue(hextets, i + 1)

\* IPv6.fromBinary(hextets)
fromBinary(hextets) ==
    IF Len(hextets) # V6Bits \div HextetBits THEN RangeError
    ELSE NewIP("IPv6", hextetsValue(hextets, 1))

\* offset that wraps around the ends of the address space instead of failing
offsetWrapped(ip, d) ==
    NewIP(ip.fam, (ip.value + d) % shl(1, BIT_LENGTH(ip.fam)))

\* ip.offset(d)
offset(ip, d) == NewIP(ip.fam, ip.value + d)

\* every address object of a family
IPs(fam) == {[fam |-> fam, value |-> v] : v \in 0..(2 ^ BIT_LENGTH(fam) - 1)}

AllIPs == UNION {IPs(fam) : fam \in Families}

(***************************************************************************)
(* Subnet                                                                  *)
(***************************************************************************)

\* s.netmask()
netmask(s) ==
    shl(shl(1, s.prefix) - 1, BIT_LENGTH(s.fam) - s.prefix)

\* s.wildcard()
wildcard(s) == shl(1, BIT_LENGTH(s.fam) - s.prefix) - 1

\* s.size()
size(s) == wildcard(s) + 1

\* the constructor masking with the netmask of the next shorter prefix: one
\* bit more than the host bits is cleared
NewSubnetCoarseMask(ip, prefix) ==
    IF prefix < 0 THEN RangeError
    ELSE IF prefix > BIT_LENGTH(ip.fam) THEN RangeError
    ELSE [fam |-> ip.fam,
          prefix |-> prefix,
          address |-> NewIP(ip.fam,
                            BitAnd(ip.value,
                                   netmask([fam |-> ip.fam,
                                            prefix |-> Max(prefix - 1, 0)])))]

\* new Subnet(address, prefix)
NewSubnet(ip, prefix) ==
    IF prefix < 0 THEN RangeError
    ELSE IF prefix > BIT_LENGTH(ip.fam) THEN RangeError
    ELSE [fam |-> ip.fam,
          prefix |-> prefix,
          address |-> NewIP(ip.fam,
                            BitAnd(ip.value,
                                   netmask([fam |-> ip.fam, prefix |-> prefix])))]

\* every Subnet instance the constructor can produce
Subnets(fam) ==
    {NewSubnet(ip, p) : ip \in IPs(fam), p \in 0..BIT_LENGTH(fam)}

AllSubnets == UNION {Subnets(fam) : fam \in Families}

\* s.contains(address)
contains(s, ip) ==
    ip.fam = s.fam /\ BitAnd(ip.value, netmask(s)) = s.address.value

\* containsSubnet with the comparison of the prefix lengths turned round
containsSubnetLonger(s, t) == s.prefix >= t.prefix /\ contains(s, t.address)

\* s.containsSubnet(t)
containsSubnet(s, t) == s.prefix <= t.prefix /\ contains(s, t.address)

\* s.equals(t)
equals(s, t) ==
    s.fam = t.fam /\ s.address.value = t.address.value /\ s.prefix = t.prefix

\* at that counts a negative index back from the address after the first one
\* instead of from the end of the subnet
atFromStart(s, index) ==
    IF index < 0 - size(s) \/ index >= size(s) THEN Undefined
    ELSE IF index < 0 THEN NewIP(s.fam, s.address.value + (0 - index) - 1)
    ELSE NewIP(s.fam, s.address.value + index)

\* s.at(index)
at(s, index) ==
    IF index < 0 - size(s) \/ index >= size(s) THEN Undefined
    ELSE IF index < 0 THEN NewIP(s.fam, s.address.value + (size(s) + index))
    ELSE NewIP(s.fam, s.address.value + index)

\* s.isAdjacent(t)
isAdjacent(s, t) ==
    IF s.fam # t.fam THEN TypeError
    ELSE [value |-> (s.address.value + size(s) = t.address.value)
                    \/ (t.address.value + size(t) = s.address.value)]

\* canMerge without the comparison of the prefix lengths
canMergeAnyPrefix(s, t) ==
    LET r == isAdjacent(s, t) IN
    IF IsError(r) THEN FALSE ELSE r.value

\* s.canMerge(t)
canMerge(s, t) ==
    IF s.prefix # t.prefix THEN FALSE
    ELSE LET r == isAdjacent(s, t) IN
         IF IsError(r) THEN FALSE ELSE r.value

\* s.merge(t)
merge(s, t) ==
    LET adj == isAdjacent(s, t) IN
    IF IsError(adj) THEN adj
    ELSE IF ~adj.value THEN RangeError
    ELSE IF s.prefix # t.prefix THEN TypeError
    ELSE NewSubnet(IF s.address.value < t.address.value
                   THEN s.address ELSE t.address,
                   s.prefix - 1)

\* a returned (not thrown) value of an operation whose values are not records
Ok(v) == [value |-> v]

RECURSIVE tzLoop(_, _, _)
\* Subnet.range: the trailing-zero count of current, capped at the bit length
tzLoop(fam, current, tz) ==
    IF tz < BIT_LENGTH(fam) /\ BitAnd(shr(current, tz), 1) = 0
    THEN tzLoop(fam, current, tz + 1)
    ELSE tz

RECURSIVE blockBitsLoop(_, _)
\* Subnet.range: the bit count of the largest power of two within remaining
blockBitsLoop(remaining, maxBlockBits) ==
    IF remaining > 1
    THEN blockBitsLoop(shr(remaining, 1), maxBlockBits + 1)
    ELSE maxBlockBits

\* rangePrefix without the capacity rule: the block is as large as the
\* alignment of current allows, whether or not it ends by endValue
rangePrefixAlignOnly(fam, current, endValue) ==
    BIT_LENGTH(fam) - tzLoop(fam, current, 0)

\* rangePrefix with the capacity taken from endValue - current instead of
\* endValue - current + 1: blocks smaller than the range allows
rangePrefixShort(fam, current, endValue) ==
    LET prefixAlign == BIT_LENGTH(fam) - tzLoop(fam, current, 0)
        prefixRange == BIT_LENGTH(fam) - blockBitsLoop(endValue - current, 0)
    IN  Max(prefixAlign, prefixRange)

\* Subnet.range: the prefix of the block emitted at current
rangePrefix(fam, current, endValue) ==
    LET prefixAlign == BIT_LENGTH(fam) - tzLoop(fam, current, 0)
        prefixRange == BIT_LENGTH(fam) - blockBitsLoop(endValue - current + 1, 0)
    IN  Max(prefixAlign, prefixRange)

RECURSIVE rangeLoop(_, _, _, _)
\* Subnet.range: the while loop
rangeLoop(fam, current, endValue, result) ==
    IF current <= endValue
    THEN LET ip == NewIP(fam, current) IN
         IF IsError(ip) THEN ip
         ELSE LET subnet == NewSubnet(ip, rangePrefix(fam, current, endValue)) IN
              rangeLoop(fam, current + size(subnet), endValue,
                        Append(result, subnet))
    ELSE Ok(result)

\* Subnet.range(start, end)
range(start, end) == rangeLoop(start.fam, start.value, end.value, <<>>)

\* 1 << n on Number: the count is taken modulo the word width and the
\* result is a signed integer of that width
Int32Shl1(n) ==
    LET v == 2 ^ (n % WordBits) IN
    IF v >= 2 ^ (WordBits - 1) THEN v - 2 ^ WordBits ELSE v

RECURSIVE splitPieces(_, _, _, _, _)
\* Subnet.split: Array.from({length}, (_, i) => ...), entries i and above
splitPieces(s, prefix, sz, length, i) ==
    IF i >= length THEN <<>>
    ELSE <<NewSubnet(NewIP(s.fam, s.address.value + i * sz), prefix)>>
         \o splitPieces(s, prefix, sz, length, i + 1)

\* s.split(prefix)
split(s, prefix) ==
    IF prefix < s.prefix \/ prefix > BIT_LENGTH(s.fam) THEN RangeError
    ELSE LET length == Int32Shl1(prefix - s.prefix)
             sz == TruncDiv(size(s), length)
         IN  Ok(splitPieces(s, prefix, sz, length, 0))

\* subtract with the upper remainder starting at the last address of t
\* instead of the address after it
subtractFromLast(s, t) ==
    IF s.fam # t.fam THEN TypeError
    ELSE IF containsSubnet(t, s) THEN Ok(<<>>)
    ELSE IF ~containsSubnet(s, t) THEN Ok(<<s>>)
    ELSE LET left == IF s.address.value < t.address.value
                     THEN range(s.address, offset(t.address, -1)).value
                     ELSE <<>>
             right == IF at(t, -1).value < at(s, -1).value
                      THEN range(at(t, -1), at(s, -1)).value
                      ELSE <<>>
         IN  Ok(left \o right)

\* s.subtract(t)
subtract(s, t) ==
    IF s.fam # t.fam THEN TypeError
    ELSE IF containsSubnet(t, s) THEN Ok(<<>>)
    ELSE IF ~containsSubnet(s, t) THEN Ok(<<s>>)
    ELSE LET left == IF s.address.value < t.address.value
                     THEN range(s.address, offset(t.address, -1)).value
                     ELSE <<>>
             right == IF at(t, -1).value < at(s, -1).value
                      THEN range(offset(at(t, -1), 1), at(s, -1)).value
                      ELSE <<>>
         IN  Ok(left \o right)

(***************************************************************************)
(* SubnetList                                                              *)
(***************************************************************************)

VARIABLES
    subnets,    \* SubnetList.#subnets of the list under test
    lastOp,     \* the operation called last on the list
    lastRet,    \* what that call returned
    nops,       \* number of operations called so far
    call        \* the Subnet operation called last, its arguments and result

vars == <<subnets, lastOp, lastRet, nops, call>>

\* the comparator of the sort in optimise
sortCompare(a, b) ==
    LET byFamily == BIT_LENGTH(a.fam) - BIT_LENGTH(b.fam)
        byPrefix == b.prefix - a.prefix
    IN  IF byFamily # 0 THEN byFamily
        ELSE IF byPrefix # 0 THEN byPrefix
        ELSE IF a.address.value < b.address.value THEN -1 ELSE 1

\* the comparison puts list[j] before list[i], or puts neither first and
\* list[j] stands first
sortsBefore(list, j, i) ==
    \/ sortCompare(list[j], list[i]) < 0
    \/ /\ ~(sortCompare(list[i], list[j]) < 0)
       /\ j < i

\* Array.prototype.sort with sortCompare (stable): each element goes to the
\* place after the elements that come before it
sort(list) ==
    [k \in 1..Len(list) |->
        list[CHOOSE i \in 1..Len(list) :
                 Cardinality({j \in 1..Len(list) :
                                 j # i /\ sortsBefore(list, j, i)}) = k - 1]]

\* list.splice(i, n, ...items), i counted from 1
splice(list, i, n, items) ==
    SubSeq(list, 1, i - 1) \o items \o SubSeq(list, i + n, Len(list))

RECURSIVE scanLoop(_, _, _)
\* optimise: the for loop over neighbouring pairs
scanLoop(list, i, merged) ==
    IF i + 1 <= Len(list)
    THEN LET left == list[i]
             right == list[i + 1]
         IN  IF ~canMerge(left, right)
             THEN scanLoop(list, i + 1, merged)
             ELSE scanLoop(splice(list, i, 2, <<merge(left, right)>>), i, TRUE)
    ELSE [list |-> list, merged |-> merged]

RECURSIVE optimise(_)
\* SubnetList.optimise
optimise(list) ==
    LET r == scanLoop(sort(list), 1, FALSE) IN
    IF r.merged THEN optimise(r.list) ELSE r.list

\* SubnetList.hasSubnet
hasSubnet(list, s) == \E i \in 1..Len(list) : containsSubnet(list[i], s)

\* Array.prototype.findIndex(s => a.containsSubnet(s)), counted from 1; 0 if none
findSubSubnet(list, a) ==
    LET hits == {i \in 1..Len(list) : containsSubnet(a, list[i])} IN
    IF hits = {} THEN 0
    ELSE CHOOSE i \in hits : \A j \in hits : i <= j

\* add that treats a subnet as present only when a member equals it, not
\* when a larger member contains it
addUnlessEqual(list, a) ==
    IF \E i \in 1..Len(list) : equals(list[i], a)
    THEN [list |-> list, ret |-> FALSE]
    ELSE LET subSubnet == findSubSubnet(list, a) IN
         IF subSubnet # 0
         THEN [list |-> optimise(splice(list, subSubnet, 1, <<a>>)), ret |-> TRUE]
         ELSE [list |-> optimise(Append(list, a)), ret |-> TRUE]

\* SubnetList.add(subnet)
add(list, a) ==
    IF hasSubnet(list, a) THEN [list |-> list, ret |-> FALSE]
    ELSE LET subSubnet == findSubSubnet(list, a) IN
         IF subSubnet # 0
         THEN [list |-> optimise(splice(list, subSubnet, 1, <<a>>)), ret |-> TRUE]
         ELSE [list |-> optimise(Append(list, a)), ret |-> TRUE]

\* SubnetList.add(ip)
addAddress(list, ip) == add(list, NewSubnet(ip, BIT_LENGTH(ip.fam)))

RECURSIVE addEach(_, _)
\* for (const subnet of items) this.add(subnet)
addEach(list, items) ==
    IF items = <<>> THEN list
    ELSE addEach(add(list, Head(items)).list, Tail(items))

\* new SubnetList(items)
NewSubnetList(items) == addEach(<<>>, items)

\* SubnetList.add(otherList)
addList(list, other) == optimise(addEach(list, other))

RECURSIVE removeLoop(_, _, _)
\* SubnetList.remove: the for loop over the entries
removeLoop(list, subnet, index) ==
    IF index > Len(list) THEN [list |-> list, ret |-> FALSE]
    ELSE LET s == list[index] IN
         IF equals(s, subnet)
         THEN [list |-> splice(list, index, 1, <<>>), ret |-> TRUE]
         ELSE IF containsSubnet(s, subnet)
         THEN [list |-> splice(list, index, 1, subtract(s, subnet).value),
               ret |-> TRUE]
         ELSE removeLoop(list, subnet, index + 1)

RECURSIVE removeWithinLoop(_, _, _)
\* removeLoop that also takes out a member the subnet strictly contains
removeWithinLoop(list, subnet, index) ==
    IF index > Len(list) THEN [list |-> list, ret |-> FALSE]
    ELSE LET s == list[index] IN
         IF equals(s, subnet) \/ containsSubnet(subnet, s)
         THEN [list |-> splice(list, index, 1, <<>>), ret |-> TRUE]
         ELSE IF containsSubnet(s, subnet)
         THEN [list |-> splice(list, index, 1, subtract(s, subnet).value),
               ret |-> TRUE]
         ELSE removeWithinLoop(list, subnet, index + 1)

\* remove that subtracts the subnet from the members it contains as well
removeWithin(list, subnet) == removeWithinLoop(list, subnet, 1)

\* SubnetList.remove(subnet)
remove(list, subnet) == removeLoop(list, subnet, 1)

\* SubnetList.contains(address)
listContains(list, ip) == \E i \in 1..Len(list) : contains(list[i], ip)

RECURSIVE listSize(_)
\* SubnetList.size()
listSize(list) ==
    IF list = <<>> THEN 0 ELSE size(Head(list)) + listSize(Tail(list))

(***************************************************************************)
(* The SubnetList under test: operations called one after another on a     *)
(* list constructed empty.                                                 *)
(***************************************************************************)

NoCall == [op |-> "none"]

\* the arguments of the list operations
ListSubnets ==
    {s \in AllSubnets : s.address.value + size(s) <= 2 ^ ListSpan}

ListIPs == {ip \in AllIPs : ip.value < 2 ^ ListSpan}

Init ==
    /\ subnets = NewSubnetList(<<>>)
    /\ lastOp = "new"
    /\ lastRet = FALSE
    /\ nops = 0
    /\ call = NoCall

AddSubnet(s) ==
    /\ nops < MaxOps
    /\ subnets' = add(subnets, s).list
    /\ lastOp' = "add"
    /\ lastRet' = add(subnets, s).ret
    /\ nops' = nops + 1
    /\ UNCHANGED call

AddAddress(ip) ==
    /\ nops < MaxOps
    /\ subnets' = addAddress(subnets, ip).list
    /\ lastOp' = "addAddress"
    /\ lastRet' = addAddress(subnets, ip).ret
    /\ nops' = nops + 1
    /\ UNCHANGED call

\* list.add(new SubnetList(Subnet.range(start, end))); the overload returns
\* nothing
AddList(start, end) ==
    /\ nops < MaxOps
    /\ start.fam = end.fam
    /\ start.value <= end.value
    /\ subnets' = addList(subnets, NewSubnetList(range(start, end).value))
    /\ lastOp' = "addList"
    /\ lastRet' = FALSE
    /\ nops' = nops + 1
    /\ UNCHANGED call

RemoveSubnet(s) ==
    /\ nops < MaxOps
    /\ subnets' = remove(subnets, s).list
    /\ lastOp' = "remove"
    /\ lastRet' = remove(subnets, s).ret
    /\ nops' = nops + 1
    /\ UNCHANGED call

Next ==
    \/ \E s \in ListSubnets : AddSubnet(s)
    \/ \E ip \in ListIPs : AddAddress(ip)
    \/ \E start \in ListIPs, end \in ListIPs : AddList(start, end)
    \/ \E s \in ListSubnets : RemoveSubnet(s)

Spec == Init /\ [][Next]_vars

(***************************************************************************)
(* Subnet operations called on their own, on every pair of arguments.      *)
(***************************************************************************)

CallRange(start, end) ==
    /\ call = NoCall
    /\ call' = [op |-> "range", a |-> start, b |-> end, ret |-> range(start, end)]
    /\ UNCHANGED <<subnets, lastOp, lastRet, nops>>

CallMerge(s, t) ==
    /\ call = NoCall
    /\ call' = [op |-> "merge", a |-> s, b |-> t, ret |-> merge(s, t)]
    /\ UNCHANGED <<subnets, lastOp, lastRet, nops>>

CallSubtract(s, t) ==
    /\ call = NoCall
    /\ call' = [op |-> "subtract", a |-> s, b |-> t, ret |-> subtract(s, t)]
    /\ UNCHANGED <<subnets, lastOp, lastRet, nops>>

CallSplit(s, prefix) ==
    /\ call = NoCall
    /\ call' = [op |-> "split", a |-> s, prefix |-> prefix,
                ret |-> split(s, prefix)]
    /\ UNCHANGED <<subnets, lastOp, lastRet, nops>>

CallNewIP(fam, value) ==
    /\ call = NoCall
    /\ call' = [op |-> "newIP", fam |-> fam, value |-> value,
                ret |-> NewIP(fam, value)]
    /\ UNCHANGED <<subnets, lastOp, lastRet, nops>>

CallFromBinary(hextets) ==
    /\ call = NoCall
    /\ call' = [op |-> "fromBinary", hextets |-> hextets,
                ret |-> fromBinary(hextets)]
    /\ UNCHANGED <<subnets, lastOp, lastRet, nops>>

CallOffset(ip, d) ==
    /\ call = NoCall
    /\ call' = [op |-> "offset", a |-> ip, delta |-> d, ret |-> offset(ip, d)]
    /\ UNCHANGED <<subnets, lastOp, lastRet, nops>>

CallNewSubnet(ip, prefix) ==
    /\ call = NoCall
    /\ call' = [op |-> "newSubnet", ip |-> ip, prefix |-> prefix,
                ret |-> NewSubnet(ip, prefix)]
    /\ UNCHANGED <<subnets, lastOp, lastRet, nops>>

CallAt(s, index) ==
    /\ call = NoCall
    /\ call' = [op |-> "at", a |-> s, index |-> index, ret |-> at(s, index)]
    /\ UNCHANGED <<subnets, lastOp, lastRet, nops>>

CallCanMerge(s, t) ==
    /\ call = NoCall
    /\ call' = [op |-> "canMerge", a |-> s, b |-> t,
                ret |-> [returned |-> canMerge(s, t)]]
    /\ UNCHANGED <<subnets, lastOp, lastRet, nops>>

CallContainsSubnet(s, t) ==
    /\ call = NoCall
    /\ call' = [op |-> "containsSubnet", a |-> s, b |-> t,
                ret |-> [returned |-> containsSubnet(s, t)]]
    /\ UNCHANGED <<subnets, lastOp, lastRet, nops>>

\* the integers handed to the operations as values, offsets and indexes: from
\* below the negated size of the address space to above its size
Numbers == (0 - (2 ^ V6Bits + 1))..(2 ^ V6Bits + 1)

\* the Uint16Array arguments of fromBinary, up to one element too long
HextetArrays ==
    SeqsUpTo(0..(2 ^ HextetBits - 1), V6Bits \div HextetBits + 1)

NextSubnet ==
    \/ \E start \in AllIPs, end \in AllIPs : CallRange(start, end)
    \/ \E s \in AllSubnets, t \in AllSubnets : CallMerge(s, t)
    \/ \E s \in AllSubnets, t \in AllSubnets : CallSubtract(s, t)
    \/ \E s \in AllSubnets, prefix \in -1..(V6Bits + 1) : CallSplit(s, prefix)
    \/ \E fam \in Families, value \in Numbers : CallNewIP(fam, value)
    \/ \E hextets \in HextetArrays : CallFromBinary(hextets)
    \/ \E ip \in AllIPs, d \in Numbers : CallOffset(ip, d)
    \/ \E ip \in AllIPs, prefix \in -1..(V6Bits + 1) : CallNewSubnet(ip, prefix)
    \/ \E s \in AllSubnets, index \in Numbers : CallAt(s, index)
    \/ \E s \in AllSubnets, t \in AllSubnets : CallCanMerge(s, t)
    \/ \E s \in AllSubnets, t \in AllSubnets : CallContainsSubnet(s, t)

SpecSubnet == Init /\ [][NextSubnet]_vars

(***************************************************************************)
(* A SubnetList constructed from an array of subnets: the constructor adds *)
(* them one at a time, in the array's order, to the empty list.            *)
(***************************************************************************)

\* Largest number of subnets handed to the SubnetList constructor.
MaxItems == 4

\* the arrays handed to the constructor
ItemLists == SeqsUpTo(ListSubnets, MaxItems)

\* list = new SubnetList(items)
Construct(items) ==
    /\ call = NoCall
    /\ subnets' = NewSubnetList(items)
    /\ lastOp' = "new"
    /\ call' = [op |-> "new", items |-> items]
    /\ UNCHANGED <<lastRet, nops>>

NextBuild == \E items \in ItemLists : Construct(items)

SpecBuild == Init /\ [][NextBuild]_vars

(***************************************************************************)
(* Vocabulary of the properties                                            *)
(***************************************************************************)

\* s.set(): the addresses s.addresses() yields
Addresses(s) ==
    {NewIP(s.fam, i) : i \in s.address.value..(s.address.value + size(s) - 1)}

\* the members of a list, as a set
Members(list) == {list[i] : i \in 1..Len(list)}

\* the addresses a for which list.contains(a) is true
Covered(list) == {ip \in AllIPs : listContains(list, ip)}

\* the addresses of the inclusive range [lo, hi] of a family
Interval(fam, lo, hi) == {ip \in IPs(fam) : lo <= ip.value /\ ip.value <= hi}

RECURSIVE SumSizes(_)
SumSizes(pieces) ==
    IF pieces = <<>> THEN 0 ELSE size(Head(pieces)) + SumSizes(Tail(pieces))

UnionOf(pieces) == UNION {Addresses(pieces[i]) : i \in 1..Len(pieces)}

PairwiseDisjoint(pieces) ==
    \A i, j \in 1..Len(pieces) :
        i # j => Addresses(pieces[i]) \cap Addresses(pieces[j]) = {}

(***************************************************************************)
(* SubnetList properties, under Spec                                       *)
(***************************************************************************)

\* C1: in every reachable state of the list no two members overlap: there
\* are no two distinct members m1, m2 with m1.containsSubnet(m2).
NoTwoMembersOverlap ==
    \A i, j \in 1..Len(subnets) :
        i # j => ~containsSubnet(subnets[i], subnets[j])

\* C2: for every reachable list and every subnet s, add(s) makes the set of
\* contained addresses the previous set united with the addresses of s, and
\* hasSubnet(s) is true afterwards.
AddCoversExactly ==
    \A s \in ListSubnets :
        LET after == add(subnets, s).list IN
        /\ hasSubnet(after, s)
        /\ Covered(after) = Covered(subnets) \cup Addresses(s)

\* C3: in every reachable state of the list (in particular directly after a
\* remove) there are no two members m1, m2 with m1.canMerge(m2).
NoMergeablePair ==
    \A i, j \in 1..Len(subnets) : ~canMerge(subnets[i], subnets[j])

\* C5: size() counts no address twice: it equals the number of distinct
\* addresses a for which contains(a) is true.
SizeCountsEachAddressOnce ==
    listSize(subnets) = Cardinality(Covered(subnets))

\* C6: for every reachable list and every subnet s, if remove(s) returns true
\* then afterwards no address of s is contained, every address outside s is
\* contained exactly if it was before, and size() is smaller by s.size().
RemoveTakesExactly ==
    \A s \in ListSubnets :
        LET r == remove(subnets, s) IN
        r.ret =>
            /\ ~hasSubnet(r.list, s)
            /\ Covered(r.list) = Covered(subnets) \ Addresses(s)
            /\ listSize(r.list) = listSize(subnets) - size(s)

\* C14: for every reachable list and every subnet s of which the list
\* contains no address, add(s) followed by remove(s) leaves the list with the
\* members and the contained addresses it had before the add.
AddThenRemoveRestores ==
    \A s \in ListSubnets :
        Covered(subnets) \cap Addresses(s) = {} =>
            LET added == add(subnets, s).list
                after == remove(added, s).list
            IN  /\ Members(after) = Members(subnets)
                /\ Covered(after) = Covered(subnets)

RemoveAbsentIsNoOp ==
    \A s \in ListSubnets :
        ~hasSubnet(subnets, s) =>
            LET r == remove(subnets, s) IN
            /\ ~IsError(r)
            /\ r.ret = FALSE
            /\ r.list = subnets

\* a remove has returned false on a list one of whose members is strictly
\* contained in a subnet that no member contains
RemoveAbsentWitness ==
    /\ lastOp = "remove"
    /\ lastRet = FALSE
    /\ \E s \in ListSubnets :
           /\ ~hasSubnet(subnets, s)
           /\ \E i \in 1..Len(subnets) :
                  containsSubnet(s, subnets[i]) /\ ~equals(s, subnets[i])

(***************************************************************************)
(* Subnet properties, under SpecSubnet                                     *)
(***************************************************************************)

\* C4: for two adjacent subnets a and b of one family and one prefix length
\* p, a.merge(b) is a subnet of prefix p - 1 based at the lower of the two
\* base addresses, b.merge(a) is the same subnet, and it contains exactly the
\* addresses of a and of b.
MergeIsUnion ==
    (/\ call.op = "merge"
     /\ call.a.fam = call.b.fam
     /\ call.a.prefix = call.b.prefix
     /\ \/ call.a.address.value + size(call.a) = call.b.address.value
        \/ call.b.address.value + size(call.b) = call.a.address.value)
    => /\ ~IsError(call.ret)
       /\ call.ret.prefix = call.a.prefix - 1
       /\ call.ret.address.value =
              (IF call.a.address.value < call.b.address.value
               THEN call.a.address.value ELSE call.b.address.value)
       /\ merge(call.b, call.a) = call.ret
       /\ Addresses(call.ret) = Addresses(call.a) \cup Addresses(call.b)

\* the range calls the range properties are about
RangeCase ==
    /\ call.op = "range"
    /\ call.a.fam = call.b.fam
    /\ call.a.value <= call.b.value

\* C7: Subnet.range(start, end) with start <= end of one family returns
\* blocks that cover [start, end] exactly: the first is based at start, each
\* next one at the address after the previous block's last, the last block
\* ends at end, and every block sits at a base aligned to its size.
RangeCoversExactly ==
    RangeCase =>
        /\ ~IsError(call.ret)
        /\ LET r == call.ret.value IN
           /\ Len(r) >= 1
           /\ r[1].address.value = call.a.value
           /\ \A i \in 1..(Len(r) - 1) :
                  r[i + 1].address.value = r[i].address.value + size(r[i])
           /\ r[Len(r)].address.value + size(r[Len(r)]) - 1 = call.b.value
           /\ \A i \in 1..Len(r) : r[i].address.value % size(r[i]) = 0
           /\ PairwiseDisjoint(r)
           /\ UnionOf(r) = Interval(call.a.fam, call.a.value, call.b.value)

\* a range call whose start is not aligned and that needs three blocks or more
RangeCoversWitness ==
    /\ RangeCase
    /\ call.a.value % 2 = 1
    /\ Len(call.ret.value) >= 3

RECURSIVE FewestBlocks(_, _, _)
\* The least number of CIDR blocks that cover [lo, hi] exactly: a cover has a
\* block holding lo, which lies within the range and so is based at lo; every
\* aligned block based at lo that ends by hi is tried, and the rest of the
\* range is covered in the least number of blocks in the same way.
FewestBlocks(fam, lo, hi) ==
    IF lo > hi THEN 0
    ELSE LET first == {s \in Subnets(fam) :
                          /\ s.address.value = lo
                          /\ lo + size(s) - 1 <= hi}
             counts == {1 + FewestBlocks(fam, lo + size(s), hi) : s \in first}
         IN  CHOOSE n \in counts : \A m \in counts : n <= m

\* C8: Subnet.range(start, end) is a minimal decomposition: no list of CIDR
\* blocks with fewer elements covers [start, end] exactly.
RangeIsMinimal ==
    RangeCase =>
        /\ ~IsError(call.ret)
        /\ Len(call.ret.value) =
               FewestBlocks(call.a.fam, call.a.value, call.b.value)

\* a range call whose minimal decomposition has a block of every size but the
\* largest on both sides
RangeMinimalWitness ==
    /\ RangeCase
    /\ Len(call.ret.value) = 2 * (BIT_LENGTH(call.a.fam) - 1)
    /\ Len(call.ret.value) >= 4

\* C9: for subnets a and b of one family the pieces of a.subtract(b) are
\* pairwise non-overlapping, none overlaps b, each lies inside a, and their
\* sizes sum to a.size() minus the size of the intersection of a and b; the
\* result is empty when b covers a and is [a] when a and b share no address.
SubtractIsDifference ==
    (call.op = "subtract" /\ call.a.fam = call.b.fam) =>
        /\ ~IsError(call.ret)
        /\ LET r == call.ret.value
               A == Addresses(call.a)
               B == Addresses(call.b)
           IN  /\ PairwiseDisjoint(r)
               /\ \A i \in 1..Len(r) : Addresses(r[i]) \cap B = {}
               /\ \A i \in 1..Len(r) : containsSubnet(call.a, r[i])
               /\ \A i \in 1..Len(r) : Addresses(r[i]) \subseteq A
               /\ SumSizes(r) = size(call.a) - Cardinality(A \cap B)
               /\ UnionOf(r) = A \ B
               /\ (A \subseteq B => r = <<>>)
               /\ (A \cap B = {} => r = <<call.a>>)

\* a subtract call that leaves pieces of a on both sides of b
SubtractWitness ==
    /\ call.op = "subtract"
    /\ call.a.fam = call.b.fam
    /\ \E i, j \in 1..Len(call.ret.value) :
           /\ call.ret.value[i].address.value < call.b.address.value
           /\ call.ret.value[j].address.value > call.b.address.value
    /\ Len(call.ret.value) >= 3

\* C10: for every subnet s and prefix p with s.prefix <= p <= bit length,
\* s.split(p) returns 2^(p - s.prefix) subnets of prefix p, ascending,
\* contiguous, non-overlapping, whose sizes sum to s.size() and which cover
\* exactly s.
SplitYieldsEveryPiece ==
    (/\ call.op = "split"
     /\ call.a.prefix <= call.prefix
     /\ call.prefix <= BIT_LENGTH(call.a.fam))
    => /\ ~IsError(call.ret)
       /\ LET r == call.ret.value IN
          /\ Len(r) = 2 ^ (call.prefix - call.a.prefix)
          /\ \A i \in 1..Len(r) : r[i].prefix = call.prefix
          /\ r[1].address.value = call.a.address.value
          /\ \A i \in 1..(Len(r) - 1) :
                 r[i + 1].address.value = r[i].address.value + size(r[i])
          /\ PairwiseDisjoint(r)
          /\ SumSizes(r) = size(call.a)
          /\ UnionOf(r) = Addresses(call.a)

\* the two subnets of the last merge call are adjacent: one begins at the
\* address after the other's last
MergeArgsAdjacent ==
    \/ call.a.address.value + size(call.a) = call.b.address.value
    \/ call.b.address.value + size(call.b) = call.a.address.value

\* C11: a.merge(b) fails with TypeError when the families differ, fails with
\* TypeError whenever the prefix lengths differ (adjacent or not), and fails
\* with RangeError only when family and prefix length are equal and the
\* subnets are not adjacent; in none of these cases does it return a subnet.
MergeFailsByKind ==
    call.op = "merge" =>
        /\ call.a.fam # call.b.fam => call.ret = TypeError
        /\ (call.a.fam = call.b.fam /\ call.a.prefix # call.b.prefix)
               => call.ret = TypeError
        /\ (/\ call.a.fam = call.b.fam
            /\ call.a.prefix = call.b.prefix
            /\ ~MergeArgsAdjacent) => call.ret = RangeError
        /\ call.ret = RangeError =>
               /\ call.a.fam = call.b.fam
               /\ call.a.prefix = call.b.prefix
               /\ ~MergeArgsAdjacent

\* C17: new Subnet(address, prefix) fails with RangeError when the prefix is
\* outside [0, bit length]; for every prefix inside it succeeds whatever host
\* bits the address has and stores address & netmask, the first address of
\* the aligned block of that prefix holding the address, so that
\* stored & wildcard = 0.
ConstructorMasksAddress ==
    call.op = "newSubnet" =>
        IF call.prefix < 0 \/ call.prefix > BIT_LENGTH(call.ip.fam)
        THEN call.ret = RangeError
        ELSE /\ ~IsError(call.ret)
             /\ call.ret.fam = call.ip.fam
             /\ call.ret.prefix = call.prefix
             /\ ~IsError(call.ret.address)
             /\ call.ret.address.value =
                    BitAnd(call.ip.value, netmask(call.ret))
             /\ call.ret.address.value =
                    call.ip.value - (call.ip.value % size(call.ret))
             /\ BitAnd(call.ret.address.value, wildcard(call.ret)) = 0

\* a subnet constructed from an address with host bits set
ConstructorMasksWitness ==
    /\ call.op = "newSubnet"
    /\ ~IsError(call.ret)
    /\ call.prefix >= 1
    /\ call.prefix < BIT_LENGTH(call.ip.fam)
    /\ call.ip.value # call.ret.address.value

\* C18: for every subnet s, s.at(i) for i in [0, s.size()) is the address of
\* value s.address.value + i and s contains it; for i in [-s.size(), -1] it
\* equals s.at(s.size() + i); it is undefined exactly when i < -s.size() or
\* i >= s.size().
AtIndexesTheSubnet ==
    call.op = "at" =>
        LET s == call.a
            i == call.index
        IN  /\ (0 <= i /\ i < size(s)) =>
                   /\ ~IsError(call.ret)
                   /\ call.ret.fam = s.fam
                   /\ call.ret.value = s.address.value + i
                   /\ contains(s, call.ret)
            /\ (0 - size(s) <= i /\ i <= -1) =>
                   /\ ~IsError(call.ret)
                   /\ call.ret = at(s, size(s) + i)
                   /\ call.ret.value = s.address.value + size(s) + i
                   /\ contains(s, call.ret)
            /\ (call.ret = Undefined) <=> (i < 0 - size(s) \/ i >= size(s))
            /\ IsError(call.ret) => call.ret = Undefined

\* an at call with a negative index other than -1 that yields an address
AtIndexesWitness ==
    /\ call.op = "at"
    /\ call.index < -1
    /\ ~IsError(call.ret)
    /\ call.ret.value > call.a.address.value

\* C19: a.canMerge(b) never throws, for subnets of one family or of two; it
\* returns true exactly when a and b are of one family, have one prefix
\* length and are adjacent; and whenever it returns true a.merge(b) returns
\* a subnet.
CanMergeNeverThrows ==
    call.op = "canMerge" =>
        /\ call.ret.returned \in BOOLEAN
        /\ call.ret.returned <=>
               (/\ call.a.fam = call.b.fam
                /\ call.a.prefix = call.b.prefix
                /\ MergeArgsAdjacent)
        /\ call.ret.returned =>
               /\ ~IsError(merge(call.a, call.b))
               /\ ~IsError(merge(call.a, call.b).address)

\* a canMerge call that returned true
CanMergeWitness ==
    /\ call.op = "canMerge"
    /\ call.ret.returned
    /\ call.a.address.value > call.b.address.value

\* the value of an address object lies within its family's range
InRange(ip) ==
    /\ ~IsError(ip)
    /\ 0 <= ip.value
    /\ ip.value <= 2 ^ BIT_LENGTH(ip.fam) - 1

\* C20: every address object constructed, directly, by fromBinary, by offset,
\* or inside range, at, split, subtract, merge and addresses, has
\* 0 <= value <= 2^bitLength - 1;
\* ip.offset(d) returns the address of value ip.value + d when that lies in
\* the range and otherwise fails with TypeError, returning no address.
AddressesStayInRange ==
    /\ call.op = "newIP" =>
           IF 0 <= call.value /\ call.value <= 2 ^ BIT_LENGTH(call.fam) - 1
           THEN call.ret = [fam |-> call.fam, value |-> call.value]
           ELSE call.ret = TypeError
    /\ call.op = "offset" =>
           IF /\ 0 <= call.a.value + call.delta
              /\ call.a.value + call.delta <= 2 ^ BIT_LENGTH(call.a.fam) - 1
           THEN call.ret = [fam |-> call.a.fam,
                            value |-> call.a.value + call.delta]
           ELSE call.ret = TypeError
    /\ (call.op \in {"at", "newIP", "offset", "fromBinary"}
        /\ ~IsError(call.ret)) =>
           InRange(call.ret)
    /\ (call.op \in {"merge", "newSubnet"} /\ ~IsError(call.ret)) =>
           InRange(call.ret.address)
    /\ (call.op \in {"range", "split", "subtract"} /\ ~IsError(call.ret)) =>
           \A i \in 1..Len(call.ret.value) :
               /\ InRange(call.ret.value[i].address)
               /\ \A ip \in Addresses(call.ret.value[i]) : InRange(ip)

\* an offset call whose sum lies outside the range by more than the size of
\* the address space has failed
AddressesWitness ==
    /\ call.op = "offset"
    /\ call.a.value + call.delta > 2 ^ BIT_LENGTH(call.a.fam) + 1
    /\ call.ret = TypeError

\* C30: a.containsSubnet(b) is true exactly when a and b are of one family
\* and a contains every address of b; so two subnets of one family are
\* nested or share no address, and two subnets each of which contains the
\* other are equal.
ContainsSubnetIsInclusion ==
    call.op = "containsSubnet" =>
        LET a == call.a
            b == call.b
        IN  /\ call.ret.returned <=>
                   /\ a.fam = b.fam
                   /\ \A ip \in Addresses(b) : contains(a, ip)
            /\ call.ret.returned <=>
                   (a.fam = b.fam /\ Addresses(b) \subseteq Addresses(a))
            /\ a.fam = b.fam =>
                   \/ call.ret.returned
                   \/ containsSubnet(b, a)
                   \/ Addresses(a) \cap Addresses(b) = {}
            /\ (call.ret.returned /\ containsSubnet(b, a)) => equals(a, b)

\* a containsSubnet call that returned true for a strictly smaller subnet
\* that does not begin at the larger one's base
ContainsSubnetWitness ==
    /\ call.op = "containsSubnet"
    /\ call.ret.returned
    /\ call.a.prefix < call.b.prefix
    /\ call.a.address.value < call.b.address.value

(***************************************************************************)
(* Properties of a list built by the constructor, under SpecBuild          *)
(***************************************************************************)

\* the orders a sequence can be put in
Reorderings(items) ==
    {[i \in 1..Len(items) |-> items[p[i]]] : p \in Permutations(1..Len(items))}

\* the constructed list was given distinct subnets
BuiltFromSet ==
    /\ call.op = "new"
    /\ \A i, j \in 1..Len(call.items) : i # j => call.items[i] # call.items[j]

\* C12: adding the subnets of a set one at a time to an empty list yields
\* the same members and the same contained addresses in whatever order they
\* are added.
BuildIsOrderIndependent ==
    BuiltFromSet =>
        \A q \in Reorderings(call.items) :
            /\ Members(NewSubnetList(q)) = Members(subnets)
            /\ Covered(NewSubnetList(q)) = Covered(subnets)

\* the subnets of prefix length p that partition the block B
PartitionOf(B, p) ==
    {s \in Subnets(B.fam) : s.prefix = p /\ Addresses(s) \subseteq Addresses(B)}

\* the constructed list was given, in some order, each subnet of the
\* partition of B into subnets of prefix length p once
BuiltFromPartition(B, p) ==
    /\ call.op = "new"
    /\ Len(call.items) = 2 ^ (p - B.prefix)
    /\ Members(call.items) = PartitionOf(B, p)

\* C13: when the 2^k equal-size subnets that partition an aligned block B
\* have all been added to an empty list, the list has exactly one member,
\* which equals B, and size() is B.size().
PartitionCollapses ==
    \A B \in ListSubnets :
        \A p \in B.prefix..BIT_LENGTH(B.fam) :
            BuiltFromPartition(B, p) =>
                /\ Len(subnets) = 1
                /\ equals(subnets[1], B)
                /\ listSize(subnets) = size(B)

(***************************************************************************)
(* The preset list SubnetList.BOGON, under SpecBogon                       *)
(***************************************************************************)

\* SubnetList.BOGON: the list the constructor builds from the preset
\* subnets; at the scaled bit widths the first IPv4 block and the two IPv6
\* host routes ::/128 and ::1/128 of the table
BOGON ==
    NewSubnetList(<<NewSubnet(NewIP("IPv4", 0), V4Bits),
                    NewSubnet(NewIP("IPv6", 0), V6Bits),
                    NewSubnet(NewIP("IPv6", 1), V6Bits)>>)

\* the static field holds the list itself: the public operations of the
\* class act on it
InitBogon ==
    /\ subnets = BOGON
    /\ lastOp = "new"
    /\ lastRet = FALSE
    /\ nops = 0
    /\ call = NoCall

SpecBogon == InitBogon /\ [][Next]_vars

\* C25: no sequence of public operations invoked on SubnetList.BOGON
\* changes its member list or the set of addresses it contains.
BogonIsFixed ==
    /\ subnets = BOGON
    /\ Covered(subnets) = Covered(BOGON)

(***************************************************************************)
(* optimise, one step of its loop at a time, under SpecOptimise            *)
(***************************************************************************)

\* the body of the for loop that, on a merge, replaces the left subnet of the
\* pair only and leaves the right one in the list
scanStepKeepRight(list, i, merged) ==
    IF ~canMerge(list[i], list[i + 1])
    THEN [list |-> list, i |-> i + 1, merged |-> merged]
    ELSE [list |-> splice(list, i, 1, <<merge(list[i], list[i + 1])>>),
          i |-> i, merged |-> TRUE]

\* optimise: one pass of the body of the for loop at index i (from 1)
scanStep(list, i, merged) ==
    IF ~canMerge(list[i], list[i + 1])
    THEN [list |-> list, i |-> i + 1, merged |-> merged]
    ELSE [list |-> splice(list, i, 2, <<merge(list[i], list[i + 1])>>),
          i |-> i, merged |-> TRUE]

\* add(subnet) up to its call of optimise; a subnet the list already has
\* makes add return false at once
BeginAdd(a) ==
    /\ call = NoCall
    /\ nops < MaxOps
    /\ IF hasSubnet(subnets, a)
       THEN /\ lastOp' = "add"
            /\ lastRet' = FALSE
            /\ nops' = nops + 1
            /\ UNCHANGED <<subnets, call>>
       ELSE /\ subnets' =
                   LET subSubnet == findSubSubnet(subnets, a) IN
                   IF subSubnet # 0
                   THEN splice(subnets, subSubnet, 1, <<a>>)
                   ELSE Append(subnets, a)
            /\ call' = [op |-> "optimise", pc |-> "sort", i |-> 1,
                        merged |-> FALSE, merges |-> 0, scans |-> 0,
                        start |-> subnets']
            /\ UNCHANGED <<lastOp, lastRet, nops>>

\* optimise: this.#subnets.sort(...); let merged = false; i = 0
SortStep ==
    /\ call.op = "optimise"
    /\ call.pc = "sort"
    /\ subnets' = sort(subnets)
    /\ call' = [call EXCEPT !.pc = "scan", !.i = 1, !.merged = FALSE]
    /\ UNCHANGED <<lastOp, lastRet, nops>>

\* optimise: the body of the for loop, while i + 1 < length
ScanStep ==
    /\ call.op = "optimise"
    /\ call.pc = "scan"
    /\ call.i + 1 <= Len(subnets)
    /\ LET r == scanStep(subnets, call.i, call.merged) IN
       /\ subnets' = r.list
       /\ call' = [call EXCEPT !.i = r.i, !.merged = r.merged,
                               !.merges = IF r.i = call.i THEN @ + 1 ELSE @]
    /\ UNCHANGED <<lastOp, lastRet, nops>>

\* optimise: the loop is over; if (merged) this.optimise()
EndScan ==
    /\ call.op = "optimise"
    /\ call.pc = "scan"
    /\ call.i + 1 > Len(subnets)
    /\ call' = [call EXCEPT !.pc = IF call.merged THEN "sort" ELSE "done",
                            !.scans = @ + 1]
    /\ UNCHANGED <<subnets, lastOp, lastRet, nops>>

\* add: optimise has returned; return true
EndAdd ==
    /\ call.op = "optimise"
    /\ call.pc = "done"
    /\ call' = NoCall
    /\ lastOp' = "add"
    /\ lastRet' = TRUE
    /\ nops' = nops + 1
    /\ UNCHANGED subnets

OptimiseStep == SortStep \/ ScanStep \/ EndScan \/ EndAdd

NextOptimise ==
    \/ \E a \in ListSubnets : BeginAdd(a)
    \/ OptimiseStep
    \/ \E start \in ListIPs, end \in ListIPs : call = NoCall /\ AddList(start, end)
    \/ \E s \in ListSubnets : call = NoCall /\ RemoveSubnet(s)

\* the call runs to its end once begun: nothing else runs in between
SpecOptimise == Init /\ [][NextOptimise]_vars /\ WF_vars(OptimiseStep)

\* optimise has returned
OptimiseDone == call.op = "optimise" /\ call.pc = "done"

\* a step of the loop that merged a pair
MergeStep ==
    /\ call.op = "optimise"
    /\ call'.op = "optimise"
    /\ call'.merges = call.merges + 1

\* the step that follows the end of a scan
AfterScan ==
    /\ call.op = "optimise"
    /\ call.pc = "scan"
    /\ call.i + 1 > Len(subnets)

\* C29: optimise terminates for every member list it is run on; every merge
\* reduces the member count by one; it recurs after a scan that merged and
\* returns after the first scan that did not; and the list it leaves is a
\* fixed point of the pass.
OptimiseTerminates ==
    /\ (call.op = "optimise") ~> OptimiseDone
    /\ [][MergeStep => Len(subnets') = Len(subnets) - 1]_vars
    /\ [][AfterScan =>
              /\ call'.op = "optimise"
              /\ call'.pc = (IF call.merged THEN "sort" ELSE "done")
              /\ subnets' = subnets]_vars
    /\ [](OptimiseDone =>
              /\ optimise(subnets) = subnets
              /\ subnets = optimise(call.start)
              /\ Len(subnets) = Len(call.start) - call.merges)

\* an optimise call that has returned after a scan that merged twice and a
\* second scan that did not merge
OptimiseWitness ==
    /\ OptimiseDone
    /\ call.merges >= 2
    /\ call.scans >= 2

(***************************************************************************)
(* Iteration and the order of the members, under Spec                      *)
(***************************************************************************)

\* Subnet.addresses(): for (i = address.value; i < end; ++i) yield new IP(i)
addresses(s) ==
    [k \in 1..size(s) |-> NewIP(s.fam, s.address.value + (k - 1))]

RECURSIVE iterate(_)
\* SubnetList[Symbol.iterator]: the addresses of each member in turn
iterate(list) ==
    IF list = <<>> THEN <<>>
    ELSE addresses(Head(list)) \o iterate(Tail(list))

\* C27: iterating the list yields every contained address exactly once, the
\* members in list order and each member's addresses ascending from its
\* base, and as many addresses as size() says.
IterationYieldsEachOnce ==
    LET yielded == iterate(subnets) IN
    /\ {yielded[n] : n \in 1..Len(yielded)} = Covered(subnets)
    /\ \A m, n \in 1..Len(yielded) : m # n => yielded[m] # yielded[n]
    /\ \A k \in 1..Len(subnets) :
           \A j \in 1..size(subnets[k]) :
               yielded[SumSizes(SubSeq(subnets, 1, k - 1)) + j] =
                   [fam |-> subnets[k].fam,
                    value |-> subnets[k].address.value + (j - 1)]
    /\ Len(yielded) = listSize(subnets)

\* a comes before b in the order (bit length ascending, prefix length
\* descending, base address ascending), or is equal to it
OrderedBefore(a, b) ==
    \/ BIT_LENGTH(a.fam) < BIT_LENGTH(b.fam)
    \/ /\ BIT_LENGTH(a.fam) = BIT_LENGTH(b.fam)
       /\ a.prefix > b.prefix
    \/ /\ BIT_LENGTH(a.fam) = BIT_LENGTH(b.fam)
       /\ a.prefix = b.prefix
       /\ a.address.value <= b.address.value

\* C28: after any sequence of add and remove operations the members are in
\* the order (bit length ascending, prefix length descending, base address
\* ascending).
SubnetsAreOrdered ==
    \A i, j \in 1..Len(subnets) : i < j => OrderedBefore(subnets[i], subnets[j])

(***************************************************************************)
(* The array subnets() returns and the argument of add(list), under        *)
(* SpecSnapshot                                                            *)
(***************************************************************************)

\* a subnets() that returns the private array itself
ArrayAlias(list) == [shared |-> TRUE, items |-> list]

\* Array.from(this.#subnets): a new array with the same elements; shared
\* tells whether the array is the list's own
ArrayFrom(list) == [shared |-> FALSE, items |-> list]

\* list.add(other): the two lists afterwards; the loop reads other.#subnets
\* and writes this.#subnets only
addListBoth(list, other) ==
    [list |-> addList(list, other), other |-> other]

\* returned = list.subnets()
CallSubnets ==
    /\ call = NoCall
    /\ call' = [op |-> "subnets", ret |-> ArrayFrom(subnets),
                mutated |-> FALSE]
    /\ UNCHANGED <<subnets, lastOp, lastRet, nops>>

\* the caller replaces the contents of the returned array by items; a
\* shared array is the list's member array
MutateReturned(items) ==
    /\ call.op = "subnets"
    /\ ~call.mutated
    /\ call' = [call EXCEPT !.ret.items = items, !.mutated = TRUE]
    /\ subnets' = IF call.ret.shared THEN items ELSE subnets
    /\ UNCHANGED <<lastOp, lastRet, nops>>

\* returned.push(s)
PushReturned(s) == MutateReturned(Append(call.ret.items, s))

\* returned.splice(i, 1), i counted from 1
SpliceReturned(i) == MutateReturned(splice(call.ret.items, i, 1, <<>>))

\* returned.reverse()
ReverseReturned ==
    MutateReturned([k \in 1..Len(call.ret.items) |->
                       call.ret.items[Len(call.ret.items) + 1 - k]])

\* list.add(other) with other = new SubnetList(Subnet.range(start, end))
AddOther(start, end) ==
    /\ call = NoCall
    /\ nops < MaxOps
    /\ start.fam = end.fam
    /\ start.value <= end.value
    /\ LET other == NewSubnetList(range(start, end).value)
           r == addListBoth(subnets, other)
       IN  /\ subnets' = r.list
           /\ call' = [op |-> "addList", other |-> other,
                       otherAfter |-> r.other]
    /\ lastOp' = "addList"
    /\ lastRet' = FALSE
    /\ nops' = nops + 1

NextSnapshot ==
    \/ \E s \in ListSubnets : call = NoCall /\ AddSubnet(s)
    \/ \E s \in ListSubnets : call = NoCall /\ RemoveSubnet(s)
    \/ CallSubnets
    \/ \E s \in ListSubnets : PushReturned(s)
    \/ /\ call.op = "subnets"
       /\ \E i \in 1..Len(call.ret.items) : SpliceReturned(i)
    \/ ReverseReturned
    \/ \E start \in ListIPs, end \in ListIPs : AddOther(start, end)

SpecSnapshot == Init /\ [][NextSnapshot]_vars

\* a step that changes the array subnets() returned
ReturnedArrayChanges ==
    /\ call.op = "subnets"
    /\ call'.op = "subnets"
    /\ call'.ret.items # call.ret.items

HEXTETS == 8

\* the number of octets of an IPv4 address
OCTETS == 4

\* the greatest hextet, 0xFFFF
MAX_HEXTET == 65535

\* the greatest octet
MAX_OCTET == 255

\* the radix of hextets in text
HEX == 16

\* the radix of octets and prefix lengths in text
DECIMAL == 10

\* the digits of Number.prototype.toString and Number.parseInt
Digits ==
    <<"0", "1", "2", "3", "4", "5", "6", "7", "8", "9",
      "a", "b", "c", "d", "e", "f">>

RECURSIVE numberToString(_, _)
\* n.toString(radix), n a non-negative integer
numberToString(n, radix) ==
    IF n < radix THEN <<Digits[n + 1]>>
    ELSE numberToString(n \div radix, radix) \o <<Digits[(n % radix) + 1]>>

RECURSIVE join(_, _)
\* parts.join(sep)
join(parts, sep) ==
    IF parts = <<>> THEN <<>>
    ELSE IF Len(parts) = 1 THEN parts[1]
    ELSE parts[1] \o sep \o join(Tail(parts), sep)

RECURSIVE maxRepeat(_, _)
\* (?::0)+ taken greedily: the number of ":0" that stand at position q
maxRepeat(str, q) ==
    IF q + 1 <= Len(str) /\ str[q] = ":" /\ str[q + 1] = "0"
    THEN 1 + maxRepeat(str, q + 2)
    ELSE 0

RECURSIVE backtrack(_, _, _)
\* 0(?::0)+(?:$|:) at position q with at most m repetitions, giving back one
\* repetition at a time: the position after the match, or 0
backtrack(str, q, m) ==
    IF m < 1 THEN 0
    ELSE LET e == q + 1 + 2 * m IN
         IF e > Len(str) THEN e
         ELSE IF str[e] = ":" THEN e + 1
         ELSE backtrack(str, q, m - 1)

\* 0(?::0)+(?:$|:) at position q
matchFrom(str, q) ==
    IF q <= Len(str) /\ str[q] = "0"
    THEN backtrack(str, q, maxRepeat(str, q + 1))
    ELSE 0

\* /(?:^|:)0(?::0)+(?:$|:)/ at position p: the position after the match, or
\* 0; the alternative ^ is tried before the alternative :
matchAt(str, p) ==
    LET atStart == IF p = 1 THEN matchFrom(str, 1) ELSE 0
        atColon == IF p <= Len(str) /\ str[p] = ":"
                   THEN matchFrom(str, p + 1) ELSE 0
    IN  IF atStart # 0 THEN atStart ELSE atColon

RECURSIVE matchAll(_, _)
\* str.match(/(?:^|:)0(?::0)+(?:$|:)/g) from position p on: the matches from
\* left to right, none overlapping (the empty sequence for null)
matchAll(str, p) ==
    IF p > Len(str) THEN <<>>
    ELSE LET e == matchAt(str, p) IN
         IF e # 0 THEN <<SubSeq(str, p, e - 1)>> \o matchAll(str, e)
         ELSE matchAll(str, p + 1)

RECURSIVE reduceLongest(_, _)
\* matches.reduce((acc, cur) => cur.length > acc.length ? cur : acc, acc)
reduceLongest(matches, acc) ==
    IF matches = <<>> THEN acc
    ELSE reduceLongest(Tail(matches),
                       IF Len(Head(matches)) > Len(acc)
                       THEN Head(matches) ELSE acc)

\* str.indexOf(pattern), from 1; 0 when the pattern does not occur
indexOf(str, pattern) ==
    LET hits == {i \in 1..(Len(str) - Len(pattern) + 1) :
                    SubSeq(str, i, i + Len(pattern) - 1) = pattern}
    IN  IF hits = {} THEN 0 ELSE CHOOSE i \in hits : \A j \in hits : i <= j

RECURSIVE replaceEvery(_, _, _)
\* a replace that replaces every occurrence of the pattern
replaceEvery(str, pattern, replacement) ==
    LET i == indexOf(str, pattern) IN
    IF i = 0 THEN str
    ELSE SubSeq(str, 1, i - 1) \o replacement
         \o replaceEvery(SubSeq(str, i + Len(pattern), Len(str)),
                         pattern, replacement)

\* str.replace(pattern, replacement) with a string pattern: the first
\* occurrence is replaced
replace(str, pattern, replacement) ==
    LET i == indexOf(str, pattern) IN
    IF i = 0 THEN str
    ELSE SubSeq(str, 1, i - 1) \o replacement
         \o SubSeq(str, i + Len(pattern), Len(str))

\* IPv6.toString, from the hextets binary() returned
hextetsToString(hextets) ==
    LET str == join([i \in 1..Len(hextets) |-> numberToString(hextets[i], HEX)],
                    <<":">>)
        matches == matchAll(str, 1)
    IN  IF matches = <<>> THEN str
        ELSE replace(str, reduceLongest(matches, <<>>), <<":", ":">>)

\* IPv4.toString, from the octets binary() returned
octetsToString(octets) ==
    join([i \in 1..Len(octets) |-> numberToString(octets[i], DECIMAL)], <<".">>)

\* NaN and the other results of Number.parseInt
NaN == [nan |-> TRUE, num |-> 0]

\* the value of a digit character, 16 for any other character
digitValue(c) ==
    IF \E d \in 1..Len(Digits) : Digits[d] = c
    THEN (CHOOSE d \in 1..Len(Digits) : Digits[d] = c) - 1
    ELSE Len(Digits)

RECURSIVE parseDigits(_, _, _)
\* the digits of the radix that str begins with: how many, and their value
\* after the digits read so far (acc)
parseDigits(str, radix, acc) ==
    IF str # <<>> /\ digitValue(Head(str)) < radix
    THEN LET rest == parseDigits(Tail(str), radix,
                                 acc * radix + digitValue(Head(str)))
         IN  [count |-> rest.count + 1, num |-> rest.num]
    ELSE [count |-> 0, num |-> acc]

\* Number.parseInt(str, radix) of a text without white space or capital
\* letters: an optional sign, for radix 16 an optional 0x, then the longest
\* run of digits; NaN when there is no digit
parseInt(str, radix) ==
    LET signed == str # <<>> /\ Head(str) \in {"+", "-"}
        unsigned == IF signed THEN Tail(str) ELSE str
        body == IF /\ radix = HEX
                   /\ Len(unsigned) >= 2
                   /\ unsigned[1] = "0"
                   /\ unsigned[2] = "x"
                THEN SubSeq(unsigned, 3, Len(unsigned))
                ELSE unsigned
        read == parseDigits(body, radix, 0)
    IN  IF read.count = 0 THEN NaN
        ELSE [nan |-> FALSE,
              num |-> IF signed /\ Head(str) = "-" THEN 0 - read.num
                      ELSE read.num]

RECURSIVE stringSplit(_, _)
\* str.split(sep) with a non-empty separator
stringSplit(str, sep) ==
    LET i == indexOf(str, sep) IN
    IF i = 0 THEN <<str>>
    ELSE <<SubSeq(str, 1, i - 1)>>
         \o stringSplit(SubSeq(str, i + Len(sep), Len(str)), sep)

\* str.split(sep, limit): the first limit pieces
stringSplitLimit(str, sep, limit) ==
    LET pieces == stringSplit(str, sep) IN
    SubSeq(pieces, 1, IF Len(pieces) < limit THEN Len(pieces) ELSE limit)

\* IPv6.parseHextet of a text without a dot
parseHextet(hextet) == parseInt(hextet, HEX)

\* some number is NaN or lies outside 0..max
anyInvalid(numbers, max) ==
    \E i \in 1..Len(numbers) :
        numbers[i].nan \/ numbers[i].num < 0 \/ numbers[i].num > max

\* IPv6.fromString up to the call of fromBinary, for addresses of n hextets
\* (8) of at most max (0xFFFF): the array handed to fromBinary
fromStringHextets(ip, n, max) ==
    LET parts == stringSplitLimit(ip, <<":", ":">>, 2)
        hextetsOf(part) ==
            IF part = <<>> THEN <<>>
            ELSE LET texts == stringSplit(part, <<":">>) IN
                 [i \in 1..Len(texts) |-> parseHextet(texts[i])]
        hextestStart == hextetsOf(parts[1])
        hextestEnd == IF Len(parts) < 2 THEN <<>> ELSE hextetsOf(parts[2])
    IN  IF \/ anyInvalid(hextestStart, max)
           \/ anyInvalid(hextestEnd, max)
           \/ Len(parts) = 2 /\ Len(hextestStart) + Len(hextestEnd) > n - 2
           \/ Len(parts) < 2 /\ Len(hextestStart) + Len(hextestEnd) # n
        THEN RangeError
        ELSE Ok([k \in 1..n |->
                    IF k > n - Len(hextestEnd)
                    THEN hextestEnd[k - (n - Len(hextestEnd))].num
                    ELSE IF k <= Len(hextestStart) THEN hextestStart[k].num
                    ELSE 0])

\* IPv4.fromString up to the shifts of fromBinary, for addresses of n octets
\* (4) of at most max (255): the array fromBinary accepted
fromStringOctets(str, n, max) ==
    LET texts == stringSplitLimit(str, <<".">>, n)
        octets == [i \in 1..Len(texts) |-> parseInt(texts[i], DECIMAL)]
    IN  IF anyInvalid(octets, max) THEN RangeError
        ELSE IF Len(octets) # n THEN RangeError
        ELSE Ok([i \in 1..n |-> octets[i].num])

(***************************************************************************)
(* Text of the addresses and subnets of the two families                   *)
(***************************************************************************)

\* Bit length of one octet of an IPv4 address: the address is one octet
OctetBits == V4Bits

\* IPv6.binary(): (value >> shift) & 0xFFFF, from the most significant
binaryIPv6(ip) ==
    LET n == V6Bits \div HextetBits IN
    [i \in 1..n |->
        BitAnd(shr(ip.value, HextetBits * (n - i)), 2 ^ HextetBits - 1)]

\* IPv4.binary(): (value >> shift) & 0xFF, from the most significant
binaryIPv4(ip) ==
    LET n == V4Bits \div OctetBits IN
    [i \in 1..n |->
        BitAnd(shr(ip.value, OctetBits * (n - i)), 2 ^ OctetBits - 1)]

\* ip.toString()
toString(ip) ==
    IF ip.fam = "IPv6" THEN hextetsToString(binaryIPv6(ip))
    ELSE octetsToString(binaryIPv4(ip))

\* IPv6.fromString(ip)
fromStringIPv6(ip) ==
    LET hextets == fromStringHextets(ip, V6Bits \div HextetBits,
                                     2 ^ HextetBits - 1)
    IN  IF IsError(hextets) THEN hextets ELSE fromBinary(hextets.value)

RECURSIVE octetsValue(_, _)
\* IPv4.fromBinary: (octets[0] << ... | ... | octets[last]) >>> 0, the
\* octets from the i-th on
octetsValue(octets, i) ==
    IF i > Len(octets) THEN 0
    ELSE shl(octets[i], OctetBits * (Len(octets) - i))
         + octetsValue(octets, i + 1)

\* IPv4.fromString(str)
fromStringIPv4(str) ==
    LET octets == fromStringOctets(str, V4Bits \div OctetBits,
                                   2 ^ OctetBits - 1)
    IN  IF IsError(octets) THEN octets
        ELSE NewIP("IPv4", octetsValue(octets.value, 1))

\* IPAddress.fromString(ip)
fromString(ip) ==
    IF \E i \in 1..Len(ip) : ip[i] = ":" THEN fromStringIPv6(ip)
    ELSE fromStringIPv4(ip)

\* Subnet.fromCIDR(cidr)
fromCIDR(cidr) ==
    LET parts == stringSplitLimit(cidr, <<"/">>, 2) IN
    IF Len(parts) # 2 THEN RangeError
    ELSE LET prefix == parseInt(parts[2], DECIMAL) IN
         IF prefix.nan THEN RangeError
         ELSE LET address == fromString(parts[1]) IN
              IF IsError(address) THEN address
              ELSE NewSubnet(address, prefix.num)

\* s.toString()
subnetToString(s) ==
    toString(s.address) \o <<"/">> \o numberToString(s.prefix, DECIMAL)

(***************************************************************************)
(* Formatting and parsing, one call in a behaviour, under SpecText         *)
(***************************************************************************)

\* Length of the longest text handed to IPv6.fromString.
MaxText == 5

\* Length of the longest text handed to Subnet.fromCIDR.
MaxCidr == 5

\* the hextets of the addresses that are formatted: zero, 0x10 and 0xabcd
FormattedHextets == [1..HEXTETS -> {0, HEX, 43981}]

\* the octets of the addresses that are formatted
FormattedOctets == [1..OCTETS -> {0, DECIMAL, MAX_OCTET}]

\* the texts handed to IPv6.fromString: 2 is no hextet of the family
AddressTexts == SeqsUpTo({"0", "1", "2", ":"}, MaxText)

\* the texts handed to Subnet.fromCIDR
CidrTexts == SeqsUpTo({"1", ":", "/", "x"}, MaxCidr)

\* IPv6.fromBinary(hextets).toString()
CallFormat(hextets) ==
    /\ call = NoCall
    /\ call' = [op |-> "format", hextets |-> hextets,
                ret |-> [text |-> hextetsToString(hextets)]]
    /\ UNCHANGED <<subnets, lastOp, lastRet, nops>>

\* IPv4.fromBinary(octets).toString()
CallFormatOctets(octets) ==
    /\ call = NoCall
    /\ call' = [op |-> "formatOctets", octets |-> octets,
                ret |-> [text |-> octetsToString(octets)]]
    /\ UNCHANGED <<subnets, lastOp, lastRet, nops>>

\* ip.toString()
CallToString(ip) ==
    /\ call = NoCall
    /\ call' = [op |-> "toString", a |-> ip, ret |-> [text |-> toString(ip)]]
    /\ UNCHANGED <<subnets, lastOp, lastRet, nops>>

\* s.toString()
CallSubnetToString(s) ==
    /\ call = NoCall
    /\ call' = [op |-> "subnetToString", s |-> s,
                ret |-> [text |-> subnetToString(s)]]
    /\ UNCHANGED <<subnets, lastOp, lastRet, nops>>

\* IPv6.fromString(text)
CallFromString(text) ==
    /\ call = NoCall
    /\ call' = [op |-> "fromString", text |-> text,
                ret |-> fromStringIPv6(text)]
    /\ UNCHANGED <<subnets, lastOp, lastRet, nops>>

\* Subnet.fromCIDR(text)
CallFromCIDR(text) ==
    /\ call = NoCall
    /\ call' = [op |-> "fromCIDR", text |-> text, ret |-> fromCIDR(text)]
    /\ UNCHANGED <<subnets, lastOp, lastRet, nops>>

NextText ==
    \/ \E hextets \in FormattedHextets : CallFormat(hextets)
    \/ \E octets \in FormattedOctets : CallFormatOctets(octets)
    \/ \E ip \in AllIPs : CallToString(ip)
    \/ \E s \in AllSubnets : CallSubnetToString(s)
    \/ \E text \in AddressTexts : CallFromString(text)
    \/ \E text \in CidrTexts : CallFromCIDR(text)

SpecText == Init /\ [][NextText]_vars

\* the runs <<first, last>> of two or more consecutive zero hextets that no
\* zero hextet precedes or follows
ZeroRuns(h) ==
    {r \in (1..Len(h)) \X (1..Len(h)) :
        /\ r[1] < r[2]
        /\ \A k \in r[1]..r[2] : h[k] = 0
        /\ r[1] = 1 \/ h[r[1] - 1] # 0
        /\ r[2] = Len(h) \/ h[r[2] + 1] # 0}

\* the longest run, the leftmost of the longest
LeftmostLongest(h) ==
    CHOOSE r \in ZeroRuns(h) :
        \A q \in ZeroRuns(h) :
            \/ q[2] - q[1] < r[2] - r[1]
            \/ q[2] - q[1] = r[2] - r[1] /\ r[1] <= q[1]

\* the hextets from the a-th to the b-th in hexadecimal, colons between
Groups(h, a, b) ==
    join([i \in 1..(b - a + 1) |-> numberToString(h[a + i - 1], HEX)], <<":">>)

\* the text with the leftmost longest run of zero hextets replaced by ::
Canonical(h) ==
    IF ZeroRuns(h) = {} THEN Groups(h, 1, Len(h))
    ELSE LET r == LeftmostLongest(h) IN
         Groups(h, 1, r[1] - 1) \o <<":", ":">> \o Groups(h, r[2] + 1, Len(h))

\* C21: toString renders the groups in lower-case hexadecimal without
\* leading zeros and replaces one run of two or more zero groups by ::, the
\* longest and of several longest the leftmost; without such a run nothing
\* is replaced, and the all-zero address renders as ::.
FormatIsCanonical ==
    call.op = "format" =>
        /\ \A i \in 1..Len(call.hextets) :
               LET group == numberToString(call.hextets[i], HEX) IN
               /\ \A k \in 1..Len(group) : digitValue(group[k]) < HEX
               /\ Len(group) > 1 => group[1] # "0"
               /\ parseInt(group, HEX) = [nan |-> FALSE, num |-> call.hextets[i]]
        /\ call.ret.text = Canonical(call.hextets)

\* C22: the text of an address parses back to an address of the same
\* family and value, and the text of a subnet parses back to a subnet that
\* equals it.
TextRoundTrips ==
    /\ call.op = "format" =>
           /\ \E i \in 1..Len(call.ret.text) : call.ret.text[i] = ":"
           /\ fromStringHextets(call.ret.text, HEXTETS, MAX_HEXTET) =
                  Ok(call.hextets)
    /\ call.op = "formatOctets" =>
           /\ \A i \in 1..Len(call.ret.text) : call.ret.text[i] # ":"
           /\ fromStringOctets(call.ret.text, OCTETS, MAX_OCTET) =
                  Ok(call.octets)
    /\ call.op = "toString" =>
           /\ fromString(call.ret.text) = call.a
           /\ call.a.fam = "IPv6" => fromBinary(binaryIPv6(call.a)) = call.a
    /\ call.op = "subnetToString" =>
           /\ ~IsError(fromCIDR(call.ret.text))
           /\ equals(fromCIDR(call.ret.text), call.s)

\* an address with a run of zero hextets between two other hextets has been
\* formatted, the run has been replaced, and the text parses back
TextRoundTripsWitness ==
    /\ call.op = "format"
    /\ call.hextets[1] # 0
    /\ call.hextets[HEXTETS] # 0
    /\ ZeroRuns(call.hextets) # {}
    /\ Len(call.ret.text) < Len(Groups(call.hextets, 1, HEXTETS))
    /\ fromStringHextets(call.ret.text, HEXTETS, MAX_HEXTET) = Ok(call.hextets)

\* the number of places where two colons stand side by side
DoubleColons(text) ==
    Cardinality({i \in 1..(Len(text) - 1) : text[i] = ":" /\ text[i + 1] = ":"})

\* the groups written in a part of an address text, the colons between them
\* taken away
WrittenGroups(part) ==
    IF part = <<>> THEN <<>> ELSE stringSplit(part, <<":">>)

\* a group of hexadecimal digits that is a hextet of the family
IsHextetText(group) ==
    /\ group # <<>>
    /\ \A k \in 1..Len(group) : digitValue(group[k]) < HEX
    /\ parseDigits(group, HEX, 0).num <= 2 ^ HextetBits - 1

\* C23: IPv6.fromString fails for a text with more than one ::, for a text
\* whose written groups and the groups its :: stands for are not as many as
\* the address has hextets, and for a text with a group that is no hextet;
\* it accepts a text whose one :: stands for one or more zero groups.
FromStringValidates ==
    call.op = "fromString" =>
        LET text == call.text
            n == V6Bits \div HextetBits
            where == indexOf(text, <<":", ":">>)
            start == IF where = 0 THEN WrittenGroups(text)
                     ELSE WrittenGroups(SubSeq(text, 1, where - 1))
            end == IF where = 0 THEN <<>>
                   ELSE WrittenGroups(SubSeq(text, where + 2, Len(text)))
            written == start \o end
        IN  /\ DoubleColons(text) > 1 => call.ret = RangeError
            /\ (DoubleColons(text) = 0 /\ Len(written) # n) =>
                   call.ret = RangeError
            /\ (DoubleColons(text) = 1 /\ Len(written) > n - 1) =>
                   call.ret = RangeError
            /\ (\E k \in 1..Len(written) : ~IsHextetText(written[k])) =>
                   call.ret = RangeError
            /\ (/\ DoubleColons(text) = 1
                /\ Len(written) <= n - 1
                /\ \A k \in 1..Len(written) : IsHextetText(written[k])) =>
                   call.ret = fromBinary(
                       [k \in 1..n |->
                           IF k <= Len(start)
                           THEN parseDigits(start[k], HEX, 0).num
                           ELSE IF k > n - Len(end)
                           THEN parseDigits(end[k - (n - Len(end))], HEX, 0).num
                           ELSE 0])

\* C24: Subnet.fromCIDR fails for a text that does not hold exactly one /,
\* for a prefix part that is not a non-negative decimal integer, and when
\* the address part is no address or the prefix length exceeds the bit
\* length of the family.
FromCIDRValidates ==
    call.op = "fromCIDR" =>
        LET text == call.text
            slashes == Cardinality({i \in 1..Len(text) : text[i] = "/"})
            where == indexOf(text, <<"/">>)
            address == SubSeq(text, 1, where - 1)
            prefix == SubSeq(text, where + 1, Len(text))
            decimal == /\ prefix # <<>>
                       /\ \A k \in 1..Len(prefix) :
                              digitValue(prefix[k]) < DECIMAL
        IN  /\ slashes # 1 => call.ret = RangeError
            /\ (slashes = 1 /\ ~decimal) => call.ret = RangeError
            /\ (slashes = 1 /\ IsError(fromString(address))) =>
                   call.ret = RangeError
            /\ (/\ slashes = 1
                /\ decimal
                /\ ~IsError(fromString(address))
                /\ parseDigits(prefix, DECIMAL, 0).num >
                       BIT_LENGTH(fromString(address).fam)) =>
                   call.ret = RangeError

====
